---- MODULE Spec2Model ----
(***************************************************************************)
(* Lumo AI: the recurring spend-permission execution engine.               *)
(*                                                                         *)
(*   POST /api/sip/execute/[id]   (executePlan, one run per request)       *)
(*   GET  /api/cron/rebalance     (strategy refresh of rebalancing plans)  *)
(*   POST /api/financial-planner  (generateAIStrategy, fallback strategy)  *)
(*                                                                         *)
(* The store (sip_plans, spend_permissions, sip_executions) and the ledger *)
(* (SpendPermissionManager: isApproved, approveWithSignature, spend) are   *)
(* shared by all runs. A run is cut into one action per await of the       *)
(* handler, so that overlapping requests interleave where the code can.    *)
(*                                                                         *)
(* Amounts are integers in the smallest unit (wei). The store keeps        *)
(* monthly_amount and total_deposited as decimal ether strings, modelled   *)
(* as <<whole, fraction>> with WeiPerEther smallest units per whole unit.  *)
(* Time is in milliseconds; a NULL column is <<>> and a value v is <<v>>.  *)
(* Percentages are integers (INTEGER columns of sip_plans).                *)
(***************************************************************************)
EXTENDS Integers, Sequences, FiniteSets, TLC

VARIABLES
    clock,        \* wall clock, ms (Date.now(); block.timestamp = clock \div 1000)
    plans,        \* sip_plans rows, by id
    perms,        \* spend_permissions rows, by plan_id
    executions,   \* sip_executions rows, in insertion order
    approved,     \* ledger: SpendPermissionManager._approved, by permission (= plan)
    periodSpend,  \* ledger: value already spent in the permission's current period
    txs,          \* ledger: transactions sent by the server wallet; hash = index
    run,          \* the local variables of each request being served
    calc,         \* Allocation Calculator harness: amount, triple, result
    norm,         \* strategy normalisation harness: raw triple, result
    sched,        \* GET /api/cron/sip-execute: the pass of the scheduler
    planner,      \* POST /api/financial-planner: the request being served
    contract,     \* LumoContract: storage, balance, and the last transaction
    legacy        \* the last response of the superseded execute route and of
                  \* GET /api/sip/status

execVars == <<clock, plans, perms, executions, approved, periodSpend, txs, run>>
pureVars == <<calc, norm, sched, planner, contract, legacy>>
vars == <<execVars, pureVars>>

----------------------------------------------------------------------------
(* Bounds of the model *)

MaxClockSec == 2       \* the clock stops advancing after this many seconds
MaxAmount == 30        \* Allocation Calculator harness: amounts 0..MaxAmount
MaxRaw == 60           \* normalisation harness: raw percentages 0..MaxRaw
MaxDeposited == 10     \* LumoContract: a plan's totalDeposited stays within this

----------------------------------------------------------------------------
(* Program constants *)

WeiPerEther == 100     \* stands for 10^18 of viem's parseEther/formatEther
maxRetries == 2
DefaultPeriodSec == 2592000
MsPerSec == 1000
TolerancePct == 1
Uint8Max == 255        \* LumoContract.sol: Strategy percentages are uint8
EXECUTION_INTERVAL_MS == 60000   \* status/route.ts 50, part_004 44: 60 * 1000

PlanIds == {1, 2, 3}
Runs == {1, 2}

\* the [id] segment of the request path, as a sequence of characters: the
\* three plans, a well-formed id with no row, and two malformed ids
RequestIds == { <<"1">>, <<"2">>, <<"3">>, <<"0">>, <<"a", "b", "c">>, <<"0", "a">> }

----------------------------------------------------------------------------
(* Pure helpers *)

Min(a, b) == IF a <= b THEN a ELSE b
Abs(a) == IF a >= 0 THEN a ELSE -a
Sum3(s) == s[1] + s[2] + s[3]

\* parseInt(id): the value of the longest prefix of decimal digits, NaN when
\* that prefix is empty
Digits == <<"0", "1", "2", "3", "4", "5", "6", "7", "8", "9">>
IsDigit(c) == \E i \in 1..Len(Digits) : Digits[i] = c
DigitValue(c) == (CHOOSE i \in 1..Len(Digits) : Digits[i] = c) - 1
NaN == -1     \* stands for NaN; no id used here has a sign

RECURSIVE ParseDigits(_, _, _)
ParseDigits(s, i, acc) ==
    IF i > Len(s) \/ ~IsDigit(s[i])
    THEN acc
    ELSE ParseDigits(s, i + 1, 10 * acc + DigitValue(s[i]))

parseInt(s) == IF Len(s) = 0 \/ ~IsDigit(s[1]) THEN NaN ELSE ParseDigits(s, 1, 0)

\* BigInt division truncates toward zero
BigIntDiv(a, b) == IF a >= 0 THEN a \div b ELSE -((-a) \div b)

\* viem parseEther / formatEther on the <<whole, fraction>> strings
parseEther(s) == s[1] * WeiPerEther + s[2]
formatEther(w) == <<w \div WeiPerEther, w % WeiPerEther>>

\* Math.round(n / d) for d > 0: the nearest integer, halves toward +infinity.
\* (a * (100 / total) in doubles agrees with the exact quotient for every
\* total below 232, which covers every total used here.)
MathRound(n, d) == (2 * n + d) \div (2 * d)

Breakdown_RoundsUp(amount, s) ==
    << (amount * s[1] + 99) \div 100,
       (amount * s[2] + 99) \div 100,
       (amount * s[3] + 99) \div 100 >>

\* route.ts 453-456 (and LumoContract._allocateFunds): the allocation breakdown
Breakdown(amount, s) ==
    << BigIntDiv(amount * s[1], 100),
       BigIntDiv(amount * s[2], 100),
       BigIntDiv(amount * s[3], 100) >>

\* generateAIStrategy, "Validate percentages sum to 100"
NormalizeStrategy(raw) ==
    LET total == Sum3(raw) IN
    IF Abs(total - 100) > TolerancePct
    THEN LET a == MathRound(raw[1] * 100, total)
             c == MathRound(raw[2] * 100, total)
         IN  <<a, c, 100 - a - c>>
    ELSE raw

\* generateFallbackStrategy
FallbackStrategy(risk) ==
    CASE risk = "low"    -> <<50, 40, 10>>
      [] risk = "medium" -> <<35, 35, 30>>
      [] risk = "high"   -> <<20, 25, 55>>
      [] OTHER           -> <<35, 35, 30>>

----------------------------------------------------------------------------
(* The store and the ledger at start *)

\* <<monthly_amount, allowance>> of plan 1: an amount of half the allowance,
\* one above the allowance (the spend is capped), one equal to it
PlanConfigs == { << <<0, 30>>, 60 >>, << <<1, 0>>, 60 >>, << <<1, 0>>, 100 >> }

PlanRow(active, amount, rebalancing, strategy) ==
    [ active |-> active, risk_level |-> "medium", monthly_amount |-> amount,
      strategy |-> strategy, rebalancing |-> rebalancing,
      total_deposited |-> <<0, 0>>, last_execution |-> <<>>,
      \* history, for the properties only: when the plan was first cancelled
      cancelled |-> <<>> ]

PermRow(allowance) ==
    [ allowance |-> allowance, period |-> 2, revoked |-> FALSE,
      permission_type |-> "sip" ]

\* what the language model may answer before normalisation
RawAnswers == { <<34, 34, 33>>, <<60, 60, 80>> }

Balances == {50, 150}

IdleRun ==
    [ pc |-> "idle", request |-> <<>>, planId |-> 0, monthlyAmount |-> <<0, 0>>,
      totalDeposited |-> <<0, 0>>, rebalancing |-> FALSE, lastExecution |-> <<>>,
      allowance |-> 0, now |-> 0, intervalMs |-> 0,
      storedStrategy |-> <<0, 0, 0>>, strategy |-> <<0, 0, 0>>, ai |-> "none",
      approvalTx |-> 0, spendTx |-> 0, retries |-> 0, spendValue |-> 0,
      breakdown |-> <<>>,
      \* the response: status, error, and aiRebalancing of the 200 body
      status |-> 0, error |-> "", aiRebalancing |-> "absent",
      \* history of the run, for the properties only
      balanceLow |-> FALSE, entryApproved |-> <<>>, selectorSeen |-> FALSE,
      approveSubs |-> 0, spendSubs |-> 0,
      \* the answers of the later isApproved reads, the outcome of the last
      \* spend submission, and the kinds of failure that were retried
      reconfirm |-> <<>>, recheck |-> <<>>, lastSpend |-> "none",
      retriedAfter |-> {},
      \* for a run that stopped after its spend: the runs not yet started then
      later |-> {},
      \* history, for the properties only: a write of this run changed the
      \* plan row
      planChanged |-> FALSE ]

\* The store after setup: plan 1 is active, plan 2 is paused, plan 3 is active
\* and its permission has been revoked. The clock reads start. Either nothing
\* has been executed (prior is NULL), and the permission of plan 1 may or may
\* not be approved yet, or plan 1 has been executed once, at the time prior,
\* by an earlier request. A configuration is <<monthly_amount, allowance>> of
\* plan 1, with the permission_type of its permission as an optional third
\* component.
InitExec(rebalancing, configs, priors, start) ==
    /\ clock = start
    /\ run = [r \in Runs |-> IdleRun]
    /\ \E cfg \in configs, prior \in priors :
         LET spent == Min(parseEther(cfg[1]), cfg[2])
             row == PlanRow(TRUE, cfg[1], rebalancing, <<40, 30, 30>>)
             type == IF Len(cfg) > 2 THEN cfg[3] ELSE "sip"
         IN
         /\ plans = [p \in PlanIds |->
                       IF p = 1
                       THEN IF prior # <<>>
                            THEN [row EXCEPT !.total_deposited = formatEther(spent),
                                             !.last_execution = prior]
                            ELSE row
                       ELSE PlanRow(p = 3, <<0, 30>>, rebalancing, <<50, 50, 0>>)]
         /\ perms = [p \in PlanIds |->
                       IF p = 1 THEN [PermRow(cfg[2]) EXCEPT !.permission_type = type]
                                ELSE [PermRow(60) EXCEPT !.revoked = (p = 3)]]
         /\ IF prior # <<>>
            THEN /\ txs = << [kind |-> "spend", plan |-> 1, by |-> 0,
                              value |-> spent, status |-> "success"] >>
                 /\ executions = << [plan_id |-> 1, amount |-> formatEther(spent),
                                     tx_hash |-> 1, status |-> "success",
                                     executed_at |-> prior[1]] >>
                 /\ approved = [p \in PlanIds |-> TRUE]
                 /\ periodSpend = [p \in PlanIds |->
                                     [idx |-> 0, spend |-> IF p = 1 THEN spent ELSE 0]]
            ELSE /\ txs = <<>>
                 /\ executions = <<>>
                 /\ \E a \in BOOLEAN :
                      approved = [p \in PlanIds |-> IF p = 1 THEN a ELSE TRUE]
                 /\ periodSpend = [p \in PlanIds |-> [idx |-> 0, spend |-> 0]]

SchedIdle ==
    [ pc |-> "idle", now |-> 0, lastSeen |-> <<>>, enumerated |-> {},
      pending |-> {}, results |-> {}, processed |-> 0, audit |-> "none" ]

PlannerIdle ==
    [ pc |-> "idle", agentPayment |-> FALSE, paymentInfo |-> "undefined",
      riskTolerance |-> "", status |-> 0, success |-> FALSE,
      strategy |-> <<0, 0, 0>> ]

\* LumoContract.sol 43-46, 24-41: the keys of userPlans and userPlanIds
Users == {"user1", "user2"}
ContractPlanIds == {1, 2}

\* an unset slot of the userPlans mapping: every field is zero
NoPlan ==
    [ user |-> "0x0", planId |-> 0, monthlyAmount |-> 0, strategy |-> <<0, 0, 0>>,
      totalDeposited |-> 0, lastDepositTime |-> 0, createdAt |-> 0,
      active |-> FALSE, rebalancingEnabled |-> FALSE ]

NoCall ==
    [ op |-> "constructor", sender |-> "owner", user |-> "owner", planId |-> 0,
      args |-> <<>>, value |-> 0, revert |-> "" ]

\* the contract after its constructor; deposited is the sum of the amounts of
\* the successful deposits of each plan and deactivatedBy the function that
\* last made the plan inactive, both kept for the properties
ContractInit ==
    [ userPlans |-> [u \in Users |-> [p \in ContractPlanIds |-> NoPlan]],
      userPlanIds |-> [u \in Users |-> <<>>],
      balance |-> 0,
      deposited |-> [u \in Users |-> [p \in ContractPlanIds |-> 0]],
      deactivatedBy |-> [u \in Users |-> [p \in ContractPlanIds |-> "none"]],
      last |-> NoCall ]

NoResponse ==
    [ op |-> "none", userAddress |-> "", plan |-> 0, status |-> 0,
      lastExecution |-> <<>>, nextExecution |-> 0 ]

CalcIdle == [amount |-> 0, strategy |-> <<100, 0, 0>>, out |-> <<>>]
NormIdle == [raw |-> <<100, 0, 0>>, out |-> <<>>]

\* overlapping requests on a plan without rebalancing
Init ==
    /\ InitExec(FALSE, PlanConfigs, {<<>>}, 0)
    /\ calc = CalcIdle /\ norm = NormIdle /\ sched = SchedIdle
    /\ planner = PlannerIdle /\ contract = ContractInit
    /\ legacy = NoResponse

\* one request, and the rebalance cron, on a plan with rebalancing
InitRebalance ==
    /\ InitExec(TRUE, PlanConfigs, {<<>>, <<0>>}, 0)
    /\ calc = CalcIdle /\ norm = NormIdle /\ sched = SchedIdle
    /\ planner = PlannerIdle /\ contract = ContractInit
    /\ legacy = NoResponse

----------------------------------------------------------------------------
(* The ledger *)

ChainNow == clock \div MsPerSec

CurrentPeriod(p) == ChainNow \div perms[p].period

SpentThisPeriod(p) ==
    IF periodSpend[p].idx = CurrentPeriod(p) THEN periodSpend[p].spend ELSE 0

ExceedsAllowance(p, value) == SpentThisPeriod(p) + value > perms[p].allowance

\* spend(permission, value) executes without reverting
SpendSucceeds(p, value) == approved[p] /\ ~ExceedsAllowance(p, value)

PendingTxs == {i \in 1..Len(txs) : txs[i].status = "pending"}

ApprovalPending(p) ==
    \E i \in PendingTxs : txs[i].kind = "approve" /\ txs[i].plan = p

\* The server wallet's transactions are mined in nonce order.
MineTx ==
    /\ PendingTxs # {}
    /\ LET i == CHOOSE j \in PendingTxs : \A k \in PendingTxs : j <= k
           t == txs[i]
       IN  IF t.kind = "approve"
           THEN \/ /\ approved' = [approved EXCEPT ![t.plan] = TRUE]
                   /\ txs' = [txs EXCEPT ![i].status = "success"]
                   /\ UNCHANGED periodSpend
                \* the ledger rejects the approval (signature, revocation)
                \/ /\ ~approved[t.plan]
                   /\ txs' = [txs EXCEPT ![i].status = "reverted"]
                   /\ UNCHANGED <<approved, periodSpend>>
           ELSE IF SpendSucceeds(t.plan, t.value)
           THEN /\ periodSpend' = [periodSpend EXCEPT ![t.plan] =
                      [idx |-> CurrentPeriod(t.plan),
                       spend |-> SpentThisPeriod(t.plan) + t.value]]
                /\ txs' = [txs EXCEPT ![i].status = "success"]
                /\ UNCHANGED approved
           ELSE /\ txs' = [txs EXCEPT ![i].status = "reverted"]
                /\ UNCHANGED <<approved, periodSpend>>
    /\ UNCHANGED <<clock, plans, perms, executions, run, pureVars>>

Tick ==
    /\ clock < MaxClockSec * MsPerSec
    /\ clock' = clock + MsPerSec
    /\ UNCHANGED <<plans, perms, executions, approved, periodSpend, txs, run,
                   pureVars>>

----------------------------------------------------------------------------
(* POST /api/sip/execute/[id] *)

\* return NextResponse.json(..., { status })
Respond(r, status, error) ==
    run' = [run EXCEPT ![r].pc = "done", ![r].status = status, ![r].error = error]

Goto(r, pc) == run' = [run EXCEPT ![r].pc = pc]

ExecFrame == UNCHANGED <<clock, plans, perms, executions, approved, periodSpend, txs,
                         pureVars>>

\* lines 123-149: the id is parsed, the plan row is read and checked
ReadPlan(r, request) ==
    /\ run[r].pc = "idle"
    \* the request slots are interchangeable: the lowest free one is taken
    /\ \A q \in Runs : q < r => run[q].pc # "idle"
    /\ LET id == parseInt(request) IN
       IF id = NaN
       THEN run' = [run EXCEPT ![r].pc = "done", ![r].request = request,
                               ![r].status = 400, ![r].error = "Invalid plan ID"]
       ELSE IF id \notin PlanIds
       THEN run' = [run EXCEPT ![r].pc = "done", ![r].request = request,
                               ![r].status = 404, ![r].error = "SIP plan not found"]
       ELSE IF ~plans[id].active
       THEN run' = [run EXCEPT ![r].pc = "done", ![r].request = request,
                               ![r].planId = id,
                               ![r].status = 400, ![r].error = "SIP plan is paused"]
       ELSE run' = [run EXCEPT ![r].pc = "permission", ![r].request = request,
                               ![r].planId = id,
                               ![r].monthlyAmount = plans[id].monthly_amount,
                               ![r].totalDeposited = plans[id].total_deposited,
                               ![r].rebalancing = plans[id].rebalancing,
                               ![r].lastExecution = plans[id].last_execution,
                               ![r].storedStrategy = plans[id].strategy,
                               ![r].strategy = plans[id].strategy]
    /\ UNCHANGED <<clock, plans, perms, executions, approved, periodSpend, txs, pureVars>>

\* permission.period > 0 ? period * 1000 : 30 days
ExecutionIntervalMs(period) ==
    IF period > 0 THEN period * MsPerSec ELSE DefaultPeriodSec * MsPerSec

NotYetDue_Inclusive(lastExecution, now, intervalMs) ==
    /\ lastExecution # <<>>
    /\ now - lastExecution[1] <= intervalMs

\* if (plan.last_execution) ... timeSinceLastExecution < executionIntervalMs
NotYetDue(lastExecution, now, intervalMs) ==
    /\ lastExecution # <<>>
    /\ now - lastExecution[1] < intervalMs

PermissionFound_IgnoresRevoked(perm) == perm.permission_type \in {"sip", "NULL"}

\* lines 153-157: WHERE revoked = 0 AND (permission_type = 'sip' OR
\* permission_type IS NULL)
PermissionFound(perm) ==
    /\ ~perm.revoked
    /\ perm.permission_type \in {"sip", "NULL"}

\* lines 153-194: the permission row is read, now is taken, due-ness is checked
ReadPermission(r) ==
    /\ run[r].pc = "permission"
    /\ LET id == run[r].planId
           perm == perms[id]
           interval == ExecutionIntervalMs(perm.period)
       IN  IF ~PermissionFound(perm)
           THEN Respond(r, 400, "No active spend permission found for this plan")
           ELSE IF NotYetDue(run[r].lastExecution, clock, interval)
           THEN run' = [run EXCEPT ![r].pc = "done", ![r].now = clock,
                                   ![r].intervalMs = interval,
                                   ![r].status = 429, ![r].error = "Next execution in"]
           ELSE run' = [run EXCEPT ![r].pc = IF run[r].rebalancing THEN "advisory"
                                                                  ELSE "balance",
                                   ![r].now = clock, ![r].intervalMs = interval,
                                   ![r].allowance = perm.allowance]
    /\ ExecFrame

\* what POST /api/financial-planner answers with success: true
AdvisoryStrategies(risk) ==
    {NormalizeStrategy(raw) : raw \in RawAnswers} \cup {FallbackStrategy(risk)}

AiFailures == {"AI returned no strategy", "fetch failed"}

AdvisoryFailed_TakesReturnedStrategy(r, reason) ==
    run' = [run EXCEPT ![r].pc = "balance", ![r].ai = reason, ![r].strategy = <<0, 0, 0>>]

\* lines 248-256: aiRebalanceResult = { success: false, reasoning }, and the
\* run continues with the existing strategy
AdvisoryFailed(r, reason) ==
    run' = [run EXCEPT ![r].pc = "balance", ![r].ai = reason]

\* lines 203-237 and 248-256: the advisory call and what the run keeps of it
CallAdvisory(r) ==
    /\ run[r].pc = "advisory"
    /\ \/ \E s \in AdvisoryStrategies(plans[run[r].planId].risk_level) :
            run' = [run EXCEPT ![r].pc = "persist", ![r].strategy = s, ![r].ai = "success"]
       \* rebalanceData.success is false or there is no strategy (else branch);
       \* fetch or response.json() throws (catch)
       \/ \E reason \in AiFailures : AdvisoryFailed(r, reason)
    /\ ExecFrame

\* lines 239-243: UPDATE sip_plans SET strategy_* WHERE id
PersistStrategy(r) ==
    /\ run[r].pc = "persist"
    /\ plans' = [plans EXCEPT ![run[r].planId].strategy = run[r].strategy]
    /\ run' = [run EXCEPT ![r].pc = "balance",
                          ![r].planChanged = run[r].planChanged \/ plans' # plans]
    /\ UNCHANGED <<clock, perms, executions, approved, periodSpend, txs, pureVars>>

InsufficientBalance_NotChecked(userBalance, amountWei) == FALSE

\* line 292
InsufficientBalance(userBalance, amountWei) == userBalance < amountWei

\* lines 288-301: the balance pre-check
BalanceCheck(r) ==
    /\ run[r].pc = "balance"
    /\ \E userBalance \in Balances :
         LET amountWei == parseEther(run[r].monthlyAmount)
             low == userBalance < amountWei      \* what the ledger reported
         IN  IF InsufficientBalance(userBalance, amountWei)
             THEN run' = [run EXCEPT ![r].pc = "done", ![r].status = 400,
                                     ![r].error = "Insufficient user balance",
                                     ![r].balanceLow = low]
             ELSE run' = [run EXCEPT ![r].pc = "isApproved", ![r].balanceLow = low]
    /\ ExecFrame

NeedsApproval_Always(isApproved) == TRUE

\* line 316: if (!isApproved)
NeedsApproval(isApproved) == ~isApproved

\* lines 303-316: isApproved on entry
CheckApproved(r) ==
    /\ run[r].pc = "isApproved"
    /\ LET isApproved == approved[run[r].planId]
       IN  run' = [run EXCEPT ![r].pc = IF NeedsApproval(isApproved) THEN "approve"
                                                                     ELSE "spend",
                              ![r].entryApproved = <<isApproved>>]
    /\ ExecFrame

\* lines 325-331 and the catch of 358-381: sendTransaction(approveWithSignature)
SubmitApproval(r) ==
    /\ run[r].pc = "approve"
    /\ \/ /\ txs' = Append(txs, [kind |-> "approve", plan |-> run[r].planId, by |-> r,
                                 value |-> 0, status |-> "pending"])
          /\ run' = [run EXCEPT ![r].pc = "approvalReceipt",
                                ![r].approvalTx = Len(txs) + 1,
                                ![r].approveSubs = @ + 1]
       \* "already known": the same transaction is pending from another request
       \/ /\ ApprovalPending(run[r].planId)
          /\ run' = [run EXCEPT ![r].pc = "recheck", ![r].approveSubs = @ + 1]
          /\ UNCHANGED txs
       \* any other error is thrown again
       \/ /\ run' = [run EXCEPT ![r].pc = "done", ![r].status = 500,
                                ![r].error = "approval submission failed",
                                ![r].approveSubs = @ + 1]
          /\ UNCHANGED txs
    /\ UNCHANGED <<clock, plans, perms, executions, approved, periodSpend, pureVars>>

AwaitApprovalReceipt_NoWait(r) ==
    /\ run[r].pc = "approvalReceipt"
    /\ Goto(r, "reconfirm")
    /\ ExecFrame

\* lines 333-339: waitForTransactionReceipt(approvalTxHash)
AwaitApprovalReceipt(r) ==
    /\ run[r].pc = "approvalReceipt"
    /\ txs[run[r].approvalTx].status # "pending"
    /\ IF txs[run[r].approvalTx].status = "success"
       THEN Goto(r, "reconfirm")
       ELSE Respond(r, 500, "Approval transaction failed")
    /\ ExecFrame

\* lines 341-357: after the 2 s wait isApproved is read again; the answer only
\* decides whether the run waits 3 s more
ReconfirmApproval(r) ==
    /\ run[r].pc = "reconfirm"
    /\ run' = [run EXCEPT ![r].pc = "spend",
                          ![r].reconfirm = <<approved[run[r].planId]>>]
    /\ ExecFrame

\* lines 360-377: after "already known" and a 3 s wait isApproved is read again;
\* the answer only decides whether the run waits 5 s more
RecheckApproved(r) ==
    /\ run[r].pc = "recheck"
    /\ run' = [run EXCEPT ![r].pc = "spend",
                          ![r].recheck = <<approved[run[r].planId]>>]
    /\ ExecFrame

SpendValue_Uncapped(amountWei, allowance) == amountWei

\* line 386
SpendValue(amountWei, allowance) == IF amountWei <= allowance THEN amountWei ELSE allowance

MayRetry_AnyError(retries, reverted) == retries < maxRetries

\* line 434: the retry condition of the catch
MayRetry(retries, reverted) == retries < maxRetries /\ reverted

FatalSelectorError == "Spend limit exceeded for this period"

SpendFailure_SelectorRetried(r, value, kind) ==
    IF MayRetry(run[r].retries, kind \in {"selector", "reverted"})
    THEN run' = [run EXCEPT ![r].retries = @ + 1, ![r].selectorSeen = (kind = "selector"),
                            ![r].spendValue = value, ![r].spendSubs = @ + 1]
    ELSE run' = [run EXCEPT ![r].pc = "done", ![r].status = 500,
                            ![r].error = "execution reverted",
                            ![r].selectorSeen = (kind = "selector"),
                            ![r].spendValue = value, ![r].spendSubs = @ + 1]

\* lines 423-441: the catch around sendTransaction(spend). kind is what was
\* thrown: "selector" (error data 0x282b9f97), "reverted" ("execution
\* reverted" without it) or "other"
SpendFailure(r, value, kind) ==
    IF kind = "selector"
    THEN run' = [run EXCEPT ![r].pc = "done", ![r].status = 500,
                            ![r].error = FatalSelectorError, ![r].selectorSeen = TRUE,
                            ![r].spendValue = value, ![r].spendSubs = @ + 1,
                            ![r].lastSpend = kind]
    ELSE IF MayRetry(run[r].retries, kind = "reverted")
    THEN run' = [run EXCEPT ![r].retries = @ + 1,
                            ![r].spendValue = value, ![r].spendSubs = @ + 1,
                            ![r].lastSpend = kind,
                            ![r].retriedAfter = @ \cup {kind}]
    ELSE run' = [run EXCEPT ![r].pc = "done", ![r].status = 500,
                            ![r].error = IF kind = "reverted" THEN "execution reverted"
                                                              ELSE "request failed",
                            ![r].spendValue = value, ![r].spendSubs = @ + 1,
                            ![r].lastSpend = kind]

\* lines 410-442: one pass of the loop around sendTransaction(spend)
SubmitSpend(r) ==
    /\ run[r].pc = "spend"
    /\ LET id == run[r].planId
           value == SpendValue(parseEther(run[r].monthlyAmount), run[r].allowance)
       IN  IF run[r].retries > maxRetries
           \* the loop ends without a hash and waitForTransactionReceipt throws
           THEN Respond(r, 500, "request failed") /\ UNCHANGED txs
           ELSE \/ /\ SpendSucceeds(id, value)
                   /\ txs' = Append(txs, [kind |-> "spend", plan |-> id, by |-> r,
                                          value |-> value, status |-> "pending"])
                   /\ run' = [run EXCEPT ![r].pc = "spendReceipt",
                                         ![r].spendValue = value,
                                         ![r].spendTx = Len(txs) + 1,
                                         ![r].spendSubs = @ + 1,
                                         ![r].lastSpend = "accepted"]
                \* the ledger refuses: the period's allowance is used up
                \/ /\ approved[id] /\ ExceedsAllowance(id, value)
                   /\ SpendFailure(r, value, "selector")
                   /\ UNCHANGED txs
                \* the call reverts for another reason, or the request fails
                \/ /\ \E kind \in {"reverted", "other"} : SpendFailure(r, value, kind)
                   /\ UNCHANGED txs
    /\ UNCHANGED <<clock, plans, perms, executions, approved, periodSpend, pureVars>>

AwaitSpendReceipt_IgnoresStatus(r) ==
    /\ run[r].pc = "spendReceipt"
    /\ txs[run[r].spendTx].status # "pending"
    /\ run' = [run EXCEPT ![r].pc = "updatePlan",
                          ![r].breakdown = Breakdown(run[r].spendValue, run[r].strategy)]
    /\ ExecFrame

\* lines 444-456: the receipt of the spend, then the breakdown
AwaitSpendReceipt(r) ==
    /\ run[r].pc = "spendReceipt"
    /\ txs[run[r].spendTx].status # "pending"
    /\ IF txs[run[r].spendTx].status = "success"
       THEN run' = [run EXCEPT ![r].pc = "updatePlan",
                               ![r].breakdown = Breakdown(run[r].spendValue, run[r].strategy)]
       ELSE Respond(r, 500, "Spend transaction failed")
    /\ ExecFrame

\* lines 458-467: UPDATE sip_plans SET total_deposited, last_execution WHERE id
UpdatePlan(r) ==
    /\ run[r].pc = "updatePlan"
    /\ plans' = [plans EXCEPT
           ![run[r].planId].total_deposited =
               formatEther(parseEther(run[r].totalDeposited) + run[r].spendValue),
           ![run[r].planId].last_execution = <<run[r].now>>]
    /\ run' = [run EXCEPT ![r].pc = "insert",
                          ![r].planChanged = run[r].planChanged \/ plans' # plans]
    /\ UNCHANGED <<clock, perms, executions, approved, periodSpend, txs, pureVars>>

InsertExecution_RecordsPlanAmount(r) ==
    /\ run[r].pc = "insert"
    /\ executions' = Append(executions,
           [plan_id |-> run[r].planId, amount |-> run[r].monthlyAmount,
            tx_hash |-> run[r].spendTx, status |-> "success",
            executed_at |-> run[r].now])
    /\ run' = [run EXCEPT ![r].pc = "done", ![r].status = 200,
                          ![r].aiRebalancing = IF run[r].ai = "none" THEN "null"
                                                                     ELSE run[r].ai]
    /\ UNCHANGED <<clock, plans, perms, approved, periodSpend, txs, pureVars>>

\* lines 469-501: INSERT INTO sip_executions, then the 200 response
InsertExecution(r) ==
    /\ run[r].pc = "insert"
    /\ executions' = Append(executions,
           [plan_id |-> run[r].planId, amount |-> formatEther(run[r].spendValue),
            tx_hash |-> run[r].spendTx, status |-> "success",
            executed_at |-> run[r].now])
    /\ run' = [run EXCEPT ![r].pc = "done", ![r].status = 200,
                          ![r].aiRebalancing = IF run[r].ai = "none" THEN "null"
                                                                     ELSE run[r].ai]
    /\ UNCHANGED <<clock, plans, perms, approved, periodSpend, txs, pureVars>>

----------------------------------------------------------------------------
(* GET /api/cron/rebalance, one plan of the loop *)

RebalanceCron(p) ==
    /\ plans[p].active /\ plans[p].rebalancing
    /\ \E s \in AdvisoryStrategies(plans[p].risk_level) :
         plans' = [plans EXCEPT ![p].strategy = s]
    /\ UNCHANGED <<clock, perms, executions, approved, periodSpend, txs, run,
                   pureVars>>

----------------------------------------------------------------------------

Next ==
    \/ \E r \in Runs, id \in RequestIds : ReadPlan(r, id)
    \/ \E r \in Runs : ReadPermission(r)
    \/ \E r \in Runs : BalanceCheck(r)
    \/ \E r \in Runs : CheckApproved(r)
    \/ \E r \in Runs : SubmitApproval(r)
    \/ \E r \in Runs : AwaitApprovalReceipt(r)
    \/ \E r \in Runs : ReconfirmApproval(r)
    \/ \E r \in Runs : RecheckApproved(r)
    \/ \E r \in Runs : SubmitSpend(r)
    \/ \E r \in Runs : AwaitSpendReceipt(r)
    \/ \E r \in Runs : UpdatePlan(r)
    \/ \E r \in Runs : InsertExecution(r)
    \/ MineTx
    \/ Tick

Spec == Init /\ [][Next]_vars

\* a single request is served when the plan has rebalancing enabled
RebalanceRuns == {1}

NextRebalance ==
    \/ \E r \in RebalanceRuns, id \in RequestIds : ReadPlan(r, id)
    \/ \E r \in RebalanceRuns : ReadPermission(r)
    \/ \E r \in RebalanceRuns : CallAdvisory(r)
    \/ \E r \in RebalanceRuns : PersistStrategy(r)
    \/ \E r \in RebalanceRuns : BalanceCheck(r)
    \/ \E r \in RebalanceRuns : CheckApproved(r)
    \/ \E r \in RebalanceRuns : SubmitApproval(r)
    \/ \E r \in RebalanceRuns : AwaitApprovalReceipt(r)
    \/ \E r \in RebalanceRuns : ReconfirmApproval(r)
    \/ \E r \in RebalanceRuns : SubmitSpend(r)
    \/ \E r \in RebalanceRuns : AwaitSpendReceipt(r)
    \/ \E r \in RebalanceRuns : UpdatePlan(r)
    \/ \E r \in RebalanceRuns : InsertExecution(r)
    \/ \E p \in PlanIds : RebalanceCron(p)
    \/ MineTx
    \/ Tick

SpecRebalance == InitRebalance /\ [][NextRebalance]_vars

----------------------------------------------------------------------------
(* POST /api/sip/execute/[id]: a run that stops after its spend is confirmed *)

\* the awaits after the receipt check of lines 445-451: the plan update of
\* lines 464-467 and the execution insert of lines 470-473
AfterSpend == {"updatePlan", "insert"}

NotStarted == {q \in Runs : run[q].pc = "idle"}

\* the server process stops while the run waits for the store: nothing more
\* of the handler is executed, and no response is sent
Crash(r) ==
    /\ run[r].pc \in AfterSpend
    /\ run' = [run EXCEPT ![r].pc = "crashed", ![r].later = NotStarted]
    /\ ExecFrame

\* lines 464-473 and 502-505: turso.execute throws, the catch answers 500
StoreWriteFails(r) ==
    /\ run[r].pc \in AfterSpend
    /\ run' = [run EXCEPT ![r].pc = "done", ![r].status = 500,
                          ![r].error = "store write failed",
                          ![r].later = NotStarted]
    /\ ExecFrame

\* one plan whose monthly amount is half the allowance of its permission
InitCrash ==
    /\ InitExec(FALSE, {<< <<0, 30>>, 60 >>}, {<<>>}, 0)
    /\ calc = CalcIdle /\ norm = NormIdle /\ sched = SchedIdle
    /\ planner = PlannerIdle /\ contract = ContractInit
    /\ legacy = NoResponse

NextCrash ==
    \/ Next
    \/ \E r \in Runs : Crash(r)
    \/ \E r \in Runs : StoreWriteFails(r)

SpecCrash == InitCrash /\ [][NextCrash]_vars

----------------------------------------------------------------------------
(* The Allocation Calculator and the strategy normalisation on their own *)

\* every percentage triple that sums to 100
ValidTriples ==
    {<<x[1], x[2], 100 - x[1] - x[2]>> :
        x \in {y \in (0..100) \X (0..100) : y[1] + y[2] <= 100}}

\* what the language model may answer: non-negative integers, not all zero
RawTriples == {t \in (0..MaxRaw) \X (0..MaxRaw) \X (0..MaxRaw) : Sum3(t) > 0}

InitHarness ==
    /\ InitExec(FALSE, {<< <<1, 0>>, 100 >>}, {<<>>}, 0)
    /\ approved[1]
    /\ sched = SchedIdle
    /\ planner = PlannerIdle /\ contract = ContractInit
    /\ legacy = NoResponse

InitCalc ==
    /\ InitHarness
    /\ \E amount \in 0..MaxAmount, s \in ValidTriples :
         calc = [amount |-> amount, strategy |-> s, out |-> <<>>]
    /\ norm = NormIdle

Allocate ==
    /\ calc.out = <<>>
    /\ calc' = [calc EXCEPT !.out = Breakdown(calc.amount, calc.strategy)]
    /\ UNCHANGED <<execVars, norm, sched, planner, contract, legacy>>

SpecCalc == InitCalc /\ [][Allocate]_vars

InitNorm ==
    /\ InitHarness
    /\ calc = CalcIdle
    /\ \E raw \in RawTriples : norm = [raw |-> raw, out |-> <<>>]

Normalize ==
    /\ norm.out = <<>>
    /\ norm' = [norm EXCEPT !.out = NormalizeStrategy(norm.raw)]
    /\ UNCHANGED <<execVars, calc, sched, planner, contract, legacy>>

SpecNorm == InitNorm /\ [][Normalize]_vars

----------------------------------------------------------------------------
(* GET /api/cron/sip-execute: one pass of the scheduler *)

\* `${planId}` of the fetch URL: the decimal digits of the id
RECURSIVE FormatInt(_)
FormatInt(n) ==
    IF n < Len(Digits)
    THEN <<Digits[n + 1]>>
    ELSE Append(FormatInt(n \div Len(Digits)), Digits[(n % Len(Digits)) + 1])

\* SQLite datetime(): a time rendered to whole seconds, the fraction dropped
Datetime(ms) == ms \div MsPerSec

\* datetime(t, '+' || n || ' seconds'): n whole seconds later, rendered to
\* whole seconds (the fraction of t is dropped either way)
DatetimePlus(ms, seconds) == Datetime(ms) + seconds

\* LEFT JOIN spend_permissions sperm ON sperm.plan_id = sp.id
\*   AND sperm.permission_type = 'sip' AND sperm.revoked = 0: sperm.period
JoinedPeriod(p) ==
    IF perms[p].permission_type = "sip" /\ ~perms[p].revoked
    THEN <<perms[p].period>>
    ELSE <<>>

Coalesce(v, default) == IF v = <<>> THEN default ELSE v[1]

\* the WHERE clause of the due plans query
DuePlans(now) ==
    {p \in PlanIds :
        /\ plans[p].active
        /\ \/ plans[p].last_execution = <<>>
           \/ DatetimePlus(plans[p].last_execution[1],
                           Coalesce(JoinedPeriod(p), DefaultPeriodSec))
                 <= Datetime(now)}

\* lines 31-50: now is taken and the due plans are selected
SchedulerQuery ==
    /\ sched.pc = "idle"
    /\ sched' = [sched EXCEPT !.pc = "loop", !.now = clock,
                              !.lastSeen = [p \in PlanIds |-> plans[p].last_execution],
                              !.enumerated = DuePlans(clock),
                              !.pending = DuePlans(clock)]
    /\ UNCHANGED <<execVars, calc, norm, planner, contract, legacy>>

\* lines 56-71: the next plan of the loop is posted to /api/sip/execute/[id];
\* the loop awaits each response before it goes on
SchedulerFetch(r, p) ==
    /\ sched.pc = "loop"
    /\ p \in sched.pending
    /\ \A q \in Runs : \/ run[q].pc = "idle"
                        \/ (run[q].pc = "done" /\ run[q].planId \notin sched.pending)
    /\ ReadPlan(r, FormatInt(p))

\* lines 73-82: the response of the request is pushed to the results
SchedulerCollect(r) ==
    /\ sched.pc = "loop"
    /\ run[r].pc = "done"
    /\ run[r].planId \in sched.pending
    /\ sched' = [sched EXCEPT
           !.pending = @ \ {run[r].planId},
           !.results = @ \cup {[planId |-> run[r].planId, thrown |-> FALSE,
                                 success |-> run[r].status = 200]}]
    /\ UNCHANGED <<execVars, calc, norm, planner, contract, legacy>>

SchedulerFetchFails_AbortsPass(p) ==
    /\ sched.pc = "loop"
    /\ p \in sched.pending
    /\ sched' = [sched EXCEPT !.pc = "done", !.processed = Cardinality(sched.results)]
    /\ UNCHANGED <<execVars, calc, norm, planner, contract, legacy>>

\* lines 83-91: fetch throws; the failure is pushed and the loop goes on
SchedulerFetchFails(p) ==
    /\ sched.pc = "loop"
    /\ p \in sched.pending
    /\ \A q \in Runs : \/ run[q].pc = "idle"
                        \/ (run[q].pc = "done" /\ run[q].planId \notin sched.pending)
    /\ sched' = [sched EXCEPT !.pending = @ \ {p},
                              !.results = @ \cup {[planId |-> p, thrown |-> TRUE,
                                                    success |-> FALSE]}]
    /\ UNCHANGED <<execVars, calc, norm, planner, contract, legacy>>

\* lines 94-109: the audit row (best effort) and the summary
SchedulerFinish ==
    /\ sched.pc = "loop"
    /\ sched.pending = {}
    \* INSERT INTO cron_executions ... .catch(() => {}): written, or not
    /\ \E audit \in {"written", "failed"} :
         sched' = [sched EXCEPT !.pc = "done", !.audit = audit,
                                !.processed = Cardinality(sched.results)]
    /\ UNCHANGED <<execVars, calc, norm, planner, contract, legacy>>

\* plan 1 with a 'sip' permission, or with one whose permission_type is NULL
SchedulerConfigs == { << <<0, 30>>, 60, "sip" >>, << <<0, 30>>, 60, "NULL" >> }

\* plan 1 was never executed, or was executed at one of these times (ms)
SchedulerPriors == { <<>>, <<0>>, <<100>>, <<900>> }

\* the clock reading (ms) at which the model starts
SchedulerStarts == { 1100 }

InitScheduler ==
    /\ \E start \in SchedulerStarts :
         InitExec(FALSE, SchedulerConfigs, SchedulerPriors, start)
    /\ calc = CalcIdle /\ norm = NormIdle /\ sched = SchedIdle
    /\ planner = PlannerIdle /\ contract = ContractInit
    /\ legacy = NoResponse

NextScheduler ==
    \/ SchedulerQuery
    \/ \E r \in Runs, p \in PlanIds : SchedulerFetch(r, p)
    \/ \E p \in PlanIds : SchedulerFetchFails(p)
    \/ \E r \in Runs : SchedulerCollect(r)
    \/ SchedulerFinish
    \/ \E r \in Runs : ReadPermission(r)
    \/ \E r \in Runs : BalanceCheck(r)
    \/ \E r \in Runs : CheckApproved(r)
    \/ \E r \in Runs : SubmitApproval(r)
    \/ \E r \in Runs : AwaitApprovalReceipt(r)
    \/ \E r \in Runs : ReconfirmApproval(r)
    \/ \E r \in Runs : SubmitSpend(r)
    \/ \E r \in Runs : AwaitSpendReceipt(r)
    \/ \E r \in Runs : UpdatePlan(r)
    \/ \E r \in Runs : InsertExecution(r)
    \/ MineTx
    \/ Tick

SpecScheduler == InitScheduler /\ [][NextScheduler]_vars

----------------------------------------------------------------------------
(* POST /api/sip/status: pause, resume, cancel *)

StatusActions == {"pause", "resume", "cancel"}

\* lines 158-173: the value of the active column the action asks for
NewActiveStatus(row, action) == action = "resume"

\* lines 144-179: the plan of the user is looked up and its active column set;
\* a request for a plan that is not the user's is answered 404
SetPlanStatus(p, owner, action) ==
    /\ IF p \in PlanIds /\ owner
       THEN plans' = [plans EXCEPT
                ![p].active = NewActiveStatus(plans[p], action),
                ![p].cancelled = IF action = "cancel" /\ @ = <<>> THEN <<clock>> ELSE @]
       ELSE UNCHANGED plans
    /\ UNCHANGED <<clock, perms, executions, approved, periodSpend, txs, run, pureVars>>

\* the plans the status requests are made for: plan 1, and an id with no row
StatusRequestIds == {1, 0}

StatusRuns == {1}

InitStatus ==
    /\ InitExec(FALSE, {<< <<0, 30>>, 60 >>}, {<<>>}, 0)
    /\ calc = CalcIdle /\ norm = NormIdle /\ sched = SchedIdle
    /\ planner = PlannerIdle /\ contract = ContractInit
    /\ legacy = NoResponse

NextStatus ==
    \/ \E p \in StatusRequestIds, owner \in BOOLEAN, action \in StatusActions :
          SetPlanStatus(p, owner, action)
    \/ \E r \in StatusRuns, id \in RequestIds : ReadPlan(r, id)
    \/ \E r \in StatusRuns : ReadPermission(r)
    \/ \E r \in StatusRuns : BalanceCheck(r)
    \/ \E r \in StatusRuns : CheckApproved(r)
    \/ \E r \in StatusRuns : SubmitApproval(r)
    \/ \E r \in StatusRuns : AwaitApprovalReceipt(r)
    \/ \E r \in StatusRuns : ReconfirmApproval(r)
    \/ \E r \in StatusRuns : SubmitSpend(r)
    \/ \E r \in StatusRuns : AwaitSpendReceipt(r)
    \/ \E r \in StatusRuns : UpdatePlan(r)
    \/ \E r \in StatusRuns : InsertExecution(r)
    \/ MineTx
    \/ Tick

SpecStatus == InitStatus /\ [][NextStatus]_vars

----------------------------------------------------------------------------
(* The superseded POST /api/sip/execute and GET /api/sip/status, by user *)

\* sip_plans.user_address: plans 1 and 2 belong to one user, plan 3 to another
UserAddressOf == << "0xa", "0xa", "0xb" >>
UserAddresses == {"0xa", "0xb", "0xc"}

\* SELECT * FROM sip_plans WHERE user_address = ?, in rowid order
PlansOfUser(userAddress) == {p \in PlanIds : UserAddressOf[p] = userAddress}
FirstRow(rows) == CHOOSE p \in rows : \A q \in rows : p <= q

\* part_004 lines 44-59: the interval is fixed to 60 seconds
LegacyNotYetDue(plan, now) ==
    /\ plan.last_execution # <<>>
    /\ now - plan.last_execution[1] < EXECUTION_INTERVAL_MS

\* part_004 lines 85-94: the total and the time of the first row are written
\* to every plan WHERE user_address = ?
LegacyUpdate(rows, plan, now) ==
    [p \in PlanIds |->
        IF p \in rows
        THEN [plans[p] EXCEPT
                 !.total_deposited =
                     formatEther(parseEther(plan.total_deposited)
                                 + parseEther(plan.monthly_amount)),
                 !.last_execution = <<now>>]
        ELSE plans[p]]

LegacyResponse(op, userAddress, plan, status, lastExecution, nextExecution) ==
    [ op |-> op, userAddress |-> userAddress, plan |-> plan, status |-> status,
      lastExecution |-> lastExecution, nextExecution |-> nextExecution ]

\* part_004 lines 12-123. The INSERT of lines 97-100 names no plan_id, which
\* sip_executions declares NOT NULL (turso.ts 68-70): it throws after the
\* UPDATE, and the catch answers 500.
LegacyExecute(userAddress) ==
    LET rows == PlansOfUser(userAddress)
        p == FirstRow(rows)
        now == clock
    IN  /\ IF rows = {}
           THEN /\ legacy' = LegacyResponse("execute", userAddress, 0, 404, <<>>, 0)
                /\ UNCHANGED plans
           ELSE IF ~plans[p].active
           THEN /\ legacy' = LegacyResponse("execute", userAddress, p, 400, <<>>, 0)
                /\ UNCHANGED plans
           ELSE IF LegacyNotYetDue(plans[p], now)
           THEN /\ legacy' = LegacyResponse("execute", userAddress, p, 429,
                                            plans[p].last_execution,
                                            plans[p].last_execution[1]
                                                + EXECUTION_INTERVAL_MS)
                /\ UNCHANGED plans
           ELSE /\ plans' = LegacyUpdate(rows, plans[p], now)
                /\ legacy' = LegacyResponse("execute", userAddress, p, 500,
                                            plans[p].last_execution, 0)
        /\ UNCHANGED <<clock, perms, executions, approved, periodSpend, txs, run,
                       calc, norm, sched, planner, contract>>

\* status/route.ts lines 49-57: nextExecution of the status report
StatusNextExecution(plan, now) ==
    IF plan.last_execution # <<>>
    THEN plan.last_execution[1] + EXECUTION_INTERVAL_MS
    ELSE now + EXECUTION_INTERVAL_MS

\* status/route.ts lines 11-100: the report of the first plan of the user
GetStatus(userAddress) ==
    LET rows == PlansOfUser(userAddress)
        p == FirstRow(rows)
    IN  /\ legacy' =
             IF rows = {}
             THEN LegacyResponse("status", userAddress, 0, 404, <<>>, 0)
             ELSE LegacyResponse("status", userAddress, p, 200,
                                 plans[p].last_execution,
                                 StatusNextExecution(plans[p], clock))
        /\ UNCHANGED <<execVars, calc, norm, sched, planner, contract>>

LegacyRuns == {1}

InitLegacy == InitCrash

NextLegacy ==
    \/ \E userAddress \in UserAddresses : LegacyExecute(userAddress)
    \/ \E userAddress \in UserAddresses : GetStatus(userAddress)
    \/ \E r \in LegacyRuns, id \in RequestIds : ReadPlan(r, id)
    \/ \E r \in LegacyRuns : ReadPermission(r)
    \/ \E r \in LegacyRuns : BalanceCheck(r)
    \/ \E r \in LegacyRuns : CheckApproved(r)
    \/ \E r \in LegacyRuns : SubmitApproval(r)
    \/ \E r \in LegacyRuns : AwaitApprovalReceipt(r)
    \/ \E r \in LegacyRuns : ReconfirmApproval(r)
    \/ \E r \in LegacyRuns : SubmitSpend(r)
    \/ \E r \in LegacyRuns : AwaitSpendReceipt(r)
    \/ \E r \in LegacyRuns : UpdatePlan(r)
    \/ \E r \in LegacyRuns : InsertExecution(r)
    \/ MineTx
    \/ Tick

SpecLegacy == InitLegacy /\ [][NextLegacy]_vars

----------------------------------------------------------------------------
(* POST /api/financial-planner: agent payment, then the strategy *)

RiskTolerances == {"low", "medium", "high"}

\* what the language model may answer to the planner
PlannerAnswers ==
    {t \in {0, 20, 34, 60} \X {0, 20, 34, 60} \X {0, 20, 34, 60} : Sum3(t) > 0}

\* lines 330-346: the body is read; a missing required field answers 400 with
\* a zero strategy. agentPayment is optional.
PlannerRequest(agentPayment, fields, riskTolerance) ==
    /\ planner.pc = "idle"
    /\ planner' =
         IF ~fields
         THEN [planner EXCEPT !.pc = "done", !.agentPayment = agentPayment,
                              !.status = 400]
         ELSE [planner EXCEPT !.pc = IF agentPayment THEN "pay" ELSE "generate",
                              !.agentPayment = agentPayment,
                              !.riskTolerance = riskTolerance]
    /\ UNCHANGED <<execVars, calc, norm, sched, contract, legacy>>

\* lines 350-362 (paymentInfo): executeAgentPayment returns { paid: true }, or
\* it throws and the catch sets { paid: false }
PaymentInfo(paymentSucceeds) == IF paymentSucceeds THEN "paid" ELSE "unpaid"

\* lines 350-362: the handler continues to the strategy in both cases
PlannerPay ==
    /\ planner.pc = "pay"
    /\ \E paymentSucceeds \in BOOLEAN :
         planner' = [planner EXCEPT !.pc = "generate",
                                    !.paymentInfo = PaymentInfo(paymentSucceeds)]
    /\ UNCHANGED <<execVars, calc, norm, sched, contract, legacy>>

\* lines 364-379: without GEMINI_API_KEY, or when generateAIStrategy throws,
\* the fallback strategy; otherwise the normalised answer (lines 518-583)
PlannerGenerate ==
    /\ planner.pc = "generate"
    /\ \E s \in {NormalizeStrategy(raw) : raw \in PlannerAnswers}
                 \cup {FallbackStrategy(planner.riskTolerance)} :
         planner' = [planner EXCEPT !.pc = "done", !.status = 200,
                                    !.success = TRUE, !.strategy = s]
    /\ UNCHANGED <<execVars, calc, norm, sched, contract, legacy>>

InitPlanner == InitHarness /\ calc = CalcIdle /\ norm = NormIdle

NextPlanner ==
    \/ \E agentPayment \in BOOLEAN, fields \in BOOLEAN,
          riskTolerance \in RiskTolerances :
          PlannerRequest(agentPayment, fields, riskTolerance)
    \/ PlannerPay
    \/ PlannerGenerate

SpecPlanner == InitPlanner /\ [][NextPlanner]_vars

----------------------------------------------------------------------------
(* LumoContract.sol: plans, deposits, rebalancing, pause / cancel / resume *)

Owner == "owner"

\* the callers: the plan's user and the contract owner
CalledUsers == {"user1"}
CalledPlanIds == {1}
Senders == CalledUsers \cup {Owner}

\* block.timestamp of the blocks the transactions are mined in
BlockTimestamps == {1, 2}

\* the blocks a next transaction can be in: not earlier than any time stored
LaterTimestamps ==
    {t \in BlockTimestamps :
        \A u \in Users, p \in ContractPlanIds :
            /\ t >= contract.userPlans[u][p].createdAt
            /\ t >= contract.userPlans[u][p].lastDepositTime}

\* arguments of the calls
MonthlyAmounts == {0, 5}
PercentTriples == { <<40, 30, 30>>, <<100, 0, 0>>, <<33, 33, 33>>, <<200, 100, 56>> }
DepositValues == {0, 5}
Protocols == {"aave", "compound", "uniswap"}

\* the protocols whose receive function rejects a payment: none, or one
Rejections == {{}} \cup {{x} : x \in Protocols}

\* a transaction either reverts with a reason, leaving the storage and the
\* balance as they were, or commits the storage it has written
Transact(op, sender, user, planId, args, value, revert, committed) ==
    contract' =
        [ (IF revert = "" THEN committed ELSE contract) EXCEPT
              !.last = [ op |-> op, sender |-> sender, user |-> user,
                         planId |-> planId, args |-> args, value |-> value,
                         revert |-> revert ] ]

ContractFrame == UNCHANGED <<execVars, calc, norm, sched, planner, legacy>>

\* the sum aavePercent + compoundPercent + uniswapPercent in uint8 with the
\* checked arithmetic of Solidity 0.8: an overflow panics
PercentsRevert_Unchecked(t) ==
    IF (t[1] + t[2] + t[3]) % (Uint8Max + 1) # 100
    THEN "Percents must sum to 100" ELSE ""

PercentsRevert(t) ==
    IF t[1] + t[2] > Uint8Max \/ t[1] + t[2] + t[3] > Uint8Max
    THEN "Panic(0x11)"
    ELSE IF t[1] + t[2] + t[3] # 100 THEN "Percents must sum to 100" ELSE ""

CreateRevert_NoExistenceCheck(sender, planId, monthlyAmount, t) ==
    IF monthlyAmount = 0 THEN "Monthly amount must be greater than 0"
    ELSE PercentsRevert(t)

\* lines 110-112: the three requires of createSIPPlan, in order
CreateRevert(sender, planId, monthlyAmount, t) ==
    IF monthlyAmount = 0 THEN "Monthly amount must be greater than 0"
    ELSE IF PercentsRevert(t) # "" THEN PercentsRevert(t)
    ELSE IF contract.userPlans[sender][planId].createdAt # 0
         THEN "Plan already exists"
    ELSE ""

\* lines 102-135 (and the overload of lines 140-172, enableRebalancing false)
createSIPPlan(sender, planId, monthlyAmount, t, enableRebalancing, now) ==
    /\ Transact("createSIPPlan", sender, sender, planId,
                <<monthlyAmount, t, enableRebalancing>>, 0,
                CreateRevert(sender, planId, monthlyAmount, t),
                [contract EXCEPT
                    !.userPlans[sender][planId] =
                        [ user |-> sender, planId |-> planId,
                          monthlyAmount |-> monthlyAmount, strategy |-> t,
                          totalDeposited |-> 0, lastDepositTime |-> 0,
                          createdAt |-> now, active |-> TRUE,
                          rebalancingEnabled |-> enableRebalancing ],
                    !.userPlanIds[sender] = Append(@, planId)])
    /\ ContractFrame

\* lines 341-343: the share of each protocol, rounded down
ProtocolAmounts(plan, amount) ==
    [ aave     |-> (amount * plan.strategy[1]) \div 100,
      compound |-> (amount * plan.strategy[2]) \div 100,
      uniswap  |-> (amount * plan.strategy[3]) \div 100 ]

\* lines 345-362: a share above zero is sent to its protocol; the call of a
\* protocol that rejects the payment makes the transaction revert
AllocateRevert(plan, amount, rejecting) ==
    LET a == ProtocolAmounts(plan, amount)
    IN  IF a.aave > 0 /\ "aave" \in rejecting THEN "Aave deposit failed"
        ELSE IF a.compound > 0 /\ "compound" \in rejecting
             THEN "Compound deposit failed"
        ELSE IF a.uniswap > 0 /\ "uniswap" \in rejecting
             THEN "Uniswap deposit failed"
        ELSE ""

\* what _allocateFunds sends out of the contract
Allocated(plan, amount) ==
    LET a == ProtocolAmounts(plan, amount)
    IN  a.aave + a.compound + a.uniswap

DepositRevert(plan, value, rejecting) ==
    IF ~plan.active THEN "No active plan"
    ELSE IF value = 0 THEN "Must send ETH"
    ELSE AllocateRevert(plan, value, rejecting)

TotalAfterDeposit_CountsForwarded(plan, amount) ==
    plan.totalDeposited + Allocated(plan, amount)

\* lines 260, 239: plan.totalDeposited += amount
TotalAfterDeposit(plan, amount) == plan.totalDeposited + amount

\* the storage after a deposit of amount that has arrived in the contract
Deposited(user, planId, amount, now) ==
    LET plan == contract.userPlans[user][planId]
    IN  [contract EXCEPT
            !.balance = @ + amount - Allocated(plan, amount),
            !.userPlans[user][planId].totalDeposited =
                TotalAfterDeposit(plan, amount),
            !.userPlans[user][planId].lastDepositTime = now,
            !.deposited[user][planId] = @ + amount]

\* lines 253-264
depositDirect(sender, planId, value, rejecting, now) ==
    /\ contract.userPlans[sender][planId].totalDeposited + value <= MaxDeposited
    /\ Transact("depositDirect", sender, sender, planId, <<>>, value,
                DepositRevert(contract.userPlans[sender][planId], value,
                              rejecting),
                Deposited(sender, planId, value, now))
    /\ ContractFrame

\* what the SpendPermissionManager answers to approveWithSignature and spend
SpendOutcomes == {"spent", "refused"}

\* lines 224-236: onlyOwner, the requires, and the spend; the permission's
\* account (and spender) match or not
ExecuteRevert(sender, user, plan, accountMatches, outcome) ==
    IF sender # Owner THEN "Only owner"
    ELSE IF ~plan.active THEN "No active plan"
    ELSE IF plan.user # user THEN "User mismatch"
    ELSE IF ~accountMatches THEN "Permission account mismatch"
    ELSE IF outcome # "spent" THEN "spend reverted"
    ELSE ""

\* lines 217-245: the spend moves amount into the contract, which allocates it
executeDeposit(sender, user, planId, accountMatches, outcome, amount, rejecting, now) ==
    LET plan == contract.userPlans[user][planId]
        refused == ExecuteRevert(sender, user, plan, accountMatches, outcome)
        revert == IF refused # "" THEN refused
                  ELSE AllocateRevert(plan, amount, rejecting)
    IN  /\ plan.totalDeposited + amount <= MaxDeposited
        /\ Transact("executeDeposit", sender, user, planId, <<>>, amount,
                    revert, Deposited(user, planId, amount, now))
        /\ ContractFrame

\* lines 282-286: onlyOwner and the requires of rebalance
RebalanceRevert(sender, user, plan, t) ==
    IF sender # Owner THEN "Only owner"
    ELSE IF ~plan.active THEN "No active plan"
    ELSE IF plan.user # user THEN "User mismatch"
    ELSE IF ~plan.rebalancingEnabled THEN "Rebalancing not enabled"
    ELSE PercentsRevert(t)

\* lines 275-293
rebalance(sender, user, planId, t) ==
    /\ Transact("rebalance", sender, user, planId, <<t>>, 0,
                RebalanceRevert(sender, user, contract.userPlans[user][planId], t),
                [contract EXCEPT !.userPlans[user][planId].strategy = t])
    /\ ContractFrame

\* lines 300-306
setRebalancing(sender, planId, enabled) ==
    LET plan == contract.userPlans[sender][planId]
    IN  /\ Transact("setRebalancing", sender, sender, planId, <<enabled>>, 0,
                    IF plan.createdAt = 0 THEN "Plan does not exist"
                    ELSE IF plan.user # sender THEN "Not plan owner"
                    ELSE "",
                    [contract EXCEPT
                        !.userPlans[sender][planId].rebalancingEnabled = enabled])
        /\ ContractFrame

\* lines 384-385 and 395-396: the requires of cancelPlan and of pausePlan
DeactivateRevert(sender, plan) ==
    IF ~plan.active THEN "No active plan"
    ELSE IF plan.user # sender THEN "Not plan owner"
    ELSE ""

cancelPlan_AllPlans(sender, planId) ==
    /\ Transact("cancelPlan", sender, sender, planId, <<>>, 0,
                DeactivateRevert(sender, contract.userPlans[sender][planId]),
                [contract EXCEPT
                    !.userPlans[sender] =
                        [p \in ContractPlanIds |-> [@[p] EXCEPT !.active = FALSE]]])
    /\ ContractFrame

\* lines 382-389
cancelPlan(sender, planId) ==
    /\ Transact("cancelPlan", sender, sender, planId, <<>>, 0,
                DeactivateRevert(sender, contract.userPlans[sender][planId]),
                [contract EXCEPT !.userPlans[sender][planId].active = FALSE,
                                 !.deactivatedBy[sender][planId] = "cancelPlan"])
    /\ ContractFrame

\* lines 394-401
pausePlan(sender, planId) ==
    /\ Transact("pausePlan", sender, sender, planId, <<>>, 0,
                DeactivateRevert(sender, contract.userPlans[sender][planId]),
                [contract EXCEPT !.userPlans[sender][planId].active = FALSE,
                                 !.deactivatedBy[sender][planId] = "pausePlan"])
    /\ ContractFrame

ResumeRevert_OnlyExistence(sender, plan) ==
    IF plan.createdAt = 0 THEN "Plan does not exist" ELSE ""

\* lines 408-410: the requires of resumePlan
ResumeRevert(sender, plan) ==
    IF plan.createdAt = 0 THEN "Plan does not exist"
    ELSE IF plan.user # sender THEN "Not plan owner"
    ELSE IF plan.active THEN "Plan already active"
    ELSE ""

\* lines 406-414
resumePlan(sender, planId) ==
    /\ Transact("resumePlan", sender, sender, planId, <<>>, 0,
                ResumeRevert(sender, contract.userPlans[sender][planId]),
                [contract EXCEPT !.userPlans[sender][planId].active = TRUE])
    /\ ContractFrame

InitContract == InitHarness /\ calc = CalcIdle /\ norm = NormIdle

NextContract ==
    \/ \E sender \in CalledUsers, planId \in CalledPlanIds,
          monthlyAmount \in MonthlyAmounts, t \in PercentTriples,
          enableRebalancing \in BOOLEAN, now \in LaterTimestamps :
          createSIPPlan(sender, planId, monthlyAmount, t, enableRebalancing, now)
    \/ \E sender \in CalledUsers, planId \in CalledPlanIds, value \in DepositValues,
          rejecting \in Rejections, now \in LaterTimestamps :
          depositDirect(sender, planId, value, rejecting, now)
    \/ \E sender \in Senders, user \in CalledUsers, planId \in CalledPlanIds,
          accountMatches \in BOOLEAN, outcome \in SpendOutcomes,
          amount \in DepositValues, rejecting \in Rejections,
          now \in LaterTimestamps :
          executeDeposit(sender, user, planId, accountMatches, outcome, amount,
                         rejecting, now)
    \/ \E sender \in Senders, user \in CalledUsers, planId \in CalledPlanIds,
          t \in PercentTriples :
          rebalance(sender, user, planId, t)
    \/ \E sender \in CalledUsers, planId \in CalledPlanIds, enabled \in BOOLEAN :
          setRebalancing(sender, planId, enabled)
    \/ \E sender \in CalledUsers, planId \in CalledPlanIds : cancelPlan(sender, planId)
    \/ \E sender \in CalledUsers, planId \in CalledPlanIds : pausePlan(sender, planId)
    \/ \E sender \in CalledUsers, planId \in CalledPlanIds : resumePlan(sender, planId)

SpecContract == InitContract /\ [][NextContract]_vars

\* plans next to each other: two ids of one user and the same id of another
\* user, all created and used in one block, with one amount and strategy;
\* direct deposits and the three status functions
PlanSlots == { <<"user1", 1>>, <<"user1", 2>>, <<"user2", 1>> }

NextPlans ==
    \/ \E slot \in PlanSlots, now \in {t \in BlockTimestamps : t = 1} :
          createSIPPlan(slot[1], slot[2], 5, <<40, 30, 30>>, FALSE, now)
    \/ \E slot \in PlanSlots, now \in {t \in BlockTimestamps : t = 1} :
          depositDirect(slot[1], slot[2], 5, {}, now)
    \/ \E slot \in PlanSlots : cancelPlan(slot[1], slot[2])
    \/ \E slot \in PlanSlots : pausePlan(slot[1], slot[2])
    \/ \E slot \in PlanSlots : resumePlan(slot[1], slot[2])

SpecPlans == InitContract /\ [][NextPlans]_vars

----------------------------------------------------------------------------
(* Properties *)

SpendTxsOf(r) == {i \in 1..Len(txs) : txs[i].by = r /\ txs[i].kind = "spend"}
ApprovalTxsOf(r) == {i \in 1..Len(txs) : txs[i].by = r /\ txs[i].kind = "approve"}
Floor100(amount, pct) == (amount * pct) \div 100

\* C1: two executePlan invocations for the same plan within one authorization
\* period, sequential or interleaved, record exactly one successful withdrawal:
\* at most one spend is confirmed and at most one success record is appended;
\* an invocation that reads the plan after the first has completed gets 429.
C1_OneWithdrawalPerPeriod ==
    \A r1, r2 \in Runs :
        ( /\ r1 # r2
          /\ run[r1].planId \in PlanIds /\ run[r1].planId = run[r2].planId
          /\ run[r1].intervalMs > 0 /\ run[r2].intervalMs > 0
          /\ Abs(run[r1].now - run[r2].now) < run[r1].intervalMs )
        => /\ ~( /\ run[r1].spendTx # 0 /\ txs[run[r1].spendTx].status = "success"
                 /\ run[r2].spendTx # 0 /\ txs[run[r2].spendTx].status = "success" )
           /\ Cardinality({k \in 1..Len(executions) :
                             /\ executions[k].plan_id = run[r1].planId
                             /\ executions[k].status = "success"}) <= 1
           /\ ( run[r2].lastExecution = <<run[r1].now>> => run[r2].status = 429 )

\* C2: if the balance read reports less than the plan's target amount, the run
\* submits no transaction (no approval, no spend), ends with 400, and the
\* plan's last-execution timestamp is what it was when the run read the plan.
C2_LowBalanceNoTransaction ==
    \A r \in Runs :
        run[r].balanceLow =>
            /\ run[r].pc = "done" /\ run[r].status = 400
            /\ run[r].approveSubs = 0 /\ run[r].spendSubs = 0
            /\ SpendTxsOf(r) = {} /\ ApprovalTxsOf(r) = {}
            /\ plans[run[r].planId].last_execution = run[r].lastExecution

C2_Witness ==
    \E r \in Runs : run[r].balanceLow /\ run[r].pc = "done" /\ run[r].ai # "none"

\* C3 (as stated): if isApproved is true on entry, the run performs zero
\* approveWithSignature submissions and exactly one spend submission.
C3_ExactlyOneSpendSubmission ==
    \A r \in Runs :
        (run[r].entryApproved = <<TRUE>> /\ run[r].pc = "done")
            => run[r].approveSubs = 0 /\ run[r].spendSubs = 1

\* C3 (amended): if isApproved is true on entry, the run performs zero
\* approveWithSignature submissions and, once it has ended, between one and
\* maxRetries + 1 spend submission attempts, at most one of which the ledger
\* accepts; a run that ends with success has exactly one accepted spend.
C3_ApprovedEntryAmended ==
    \A r \in Runs :
        run[r].entryApproved = <<TRUE>> =>
            /\ run[r].approveSubs = 0 /\ ApprovalTxsOf(r) = {}
            /\ run[r].spendSubs <= maxRetries + 1
            /\ Cardinality(SpendTxsOf(r)) <= 1
            /\ run[r].pc = "done" => run[r].spendSubs >= 1
            /\ run[r].status = 200 =>
                   /\ SpendTxsOf(r) = {run[r].spendTx}
                   /\ txs[run[r].spendTx].status = "success"

C3_Witness ==
    \E r \in Runs :
        /\ run[r].entryApproved = <<TRUE>> /\ run[r].status = 200
        /\ run[r].spendSubs = maxRetries + 1 /\ run[r].approveSubs = 0

\* C4: the value passed to spend is min(targetAmount, allowance), so never
\* above the allowance; the recorded amount and the breakdown come from that
\* capped value (target 100, allowance 60, (40,30,30): 60 and (24,18,18);
\* allowance 100: 100 and (40,30,30)).
C4_SpendValueCapped ==
    /\ \A r \in Runs :
         run[r].spendSubs > 0 =>
            /\ run[r].spendValue = Min(parseEther(plans[run[r].planId].monthly_amount),
                                       perms[run[r].planId].allowance)
            /\ run[r].spendValue <= perms[run[r].planId].allowance
            /\ \A i \in SpendTxsOf(r) : txs[i].value = run[r].spendValue
            /\ run[r].breakdown # <<>> =>
                  /\ \A k \in 1..3 : run[r].breakdown[k] =
                         Floor100(txs[run[r].spendTx].value, run[r].strategy[k])
                  /\ (parseEther(run[r].monthlyAmount) = 100 /\ run[r].allowance = 60
                         /\ run[r].strategy = <<40, 30, 30>>)
                       => run[r].spendValue = 60 /\ run[r].breakdown = <<24, 18, 18>>
                  /\ (parseEther(run[r].monthlyAmount) = 100 /\ run[r].allowance = 100
                         /\ run[r].strategy = <<40, 30, 30>>)
                       => run[r].spendValue = 100 /\ run[r].breakdown = <<40, 30, 30>>
    /\ \A k \in 1..Len(executions) :
         parseEther(executions[k].amount) = txs[executions[k].tx_hash].value

C4_Witness ==
    \E r \in Runs, k \in 1..Len(executions) :
        /\ run[r].status = 200 /\ executions[k].tx_hash = run[r].spendTx
        /\ parseEther(run[r].monthlyAmount) = 100 /\ run[r].allowance = 60
        /\ executions[k].amount = <<0, 60>>
        /\ run[r].breakdown = <<24, 18, 18>>

\* C5: for every triple summing to 100 and every amount A >= 0 the calculator
\* returns (floor(A*p1/100), floor(A*p2/100), floor(A*p3/100)); each output is
\* non-negative and the outputs sum to at most A.
C5_AllocationFloors ==
    calc.out # <<>> =>
        /\ \A k \in 1..3 : /\ calc.out[k] = Floor100(calc.amount, calc.strategy[k])
                           /\ calc.out[k] >= 0
        /\ Sum3(calc.out) <= calc.amount

C5_Witness ==
    /\ calc.out # <<>> /\ calc.strategy = <<33, 33, 34>>
    /\ calc.amount = 10 /\ calc.out = <<3, 3, 3>>

\* C6: for every advisory triple whose sum lies in 97..103 the normalisation
\* step returns a triple whose sum is exactly 100.
C6_SumExactly100 ==
    (norm.out # <<>> /\ Sum3(norm.raw) \in 97..103) => Sum3(norm.out) = 100

\* C7: the stored allocation triple of every plan sums to exactly 100 in every
\* reachable state, whatever the advisory service returns.
C7_StoredTripleSums100 == \A p \in PlanIds : Sum3(plans[p].strategy) = 100

\* C8: a triple that does not sum to 100 is rejected before use: a breakdown
\* is only ever computed from a triple summing to 100, no breakdown amount is
\* negative, and the breakdown sums to at most the withdrawn amount.
C8_InvalidTripleRejected ==
    \A r \in Runs :
        run[r].breakdown # <<>> =>
            /\ Sum3(run[r].strategy) = 100
            /\ \A k \in 1..3 : run[r].breakdown[k] >= 0
            /\ Sum3(run[r].breakdown) <= run[r].spendValue

\* after a failed advisory call the run works with the triple it read
C9_RunKeepsStoredTriple ==
    \A r \in Runs :
        run[r].ai \in AiFailures =>
            /\ run[r].rebalancing
            /\ run[r].strategy = run[r].storedStrategy
            /\ run[r].error \notin AiFailures
            /\ run[r].status = 200 => run[r].aiRebalancing = run[r].ai
            /\ run[r].breakdown # <<>> =>
                  \A k \in 1..3 : run[r].breakdown[k] =
                      Floor100(run[r].spendValue, run[r].storedStrategy[k])

\* no step of a run whose advisory call failed writes a stored triple
C9_StoreUntouched ==
    \A r \in Runs :
        (run'[r].ai \in AiFailures /\ run'[r] # run[r]) =>
            \A p \in PlanIds : plans'[p].strategy = plans[p].strategy

C10_RunEndsAtSelector ==
    \A r \in Runs :
        run[r].selectorSeen =>
            /\ run[r].pc = "done" /\ run[r].status = 500
            /\ run[r].error = FatalSelectorError
            /\ run[r].spendSubs = run[r].retries + 1
            /\ run[r].spendTx = 0 /\ SpendTxsOf(r) = {}

\* the step that meets the selector writes nothing to the store or the ledger
C10_SelectorStepWritesNothing ==
    \A r \in Runs :
        (run'[r].selectorSeen /\ run'[r] # run[r]) =>
            plans' = plans /\ executions' = executions /\ txs' = txs

\* C10: a spend submission that fails with the selector 0x282b9f97 is not
\* retried: the run makes no further spend submission, fails at once with 500,
\* and the step leaves the plan rows (total, last execution) unchanged.
C10_SelectorNotRetried == [] C10_RunEndsAtSelector /\ [][C10_SelectorStepWritesNothing]_vars

C10_Witness ==
    \E r \in Runs : run[r].selectorSeen /\ run[r].pc = "done" /\ run[r].retries > 0

\* C11: every run that attempts an execution leaves an execution record: a
\* run that ends with success has a success record carrying its spend, and a
\* run that fails (insufficient balance, approval failure, spend failure,
\* reverted receipt) has a record of its plan with status failed.
C11_EveryOutcomeRecorded ==
    \A r \in Runs :
        run[r].pc = "done" =>
            /\ run[r].status = 200 =>
                   \E k \in 1..Len(executions) :
                       /\ executions[k].plan_id = run[r].planId
                       /\ executions[k].tx_hash = run[r].spendTx
                       /\ executions[k].status = "success"
            /\ (run[r].balanceLow \/ run[r].status = 500) =>
                   \E k \in 1..Len(executions) :
                       /\ executions[k].plan_id = run[r].planId
                       /\ executions[k].status = "failed"

\* C12: the spend submission is retried only after an "execution reverted"
\* failure without the fatal selector, and at most maxRetries times: a run
\* makes at most maxRetries + 1 submission attempts, any other error ends the
\* run at the attempt that met it, and the run fails when its last allowed
\* attempt fails.
C12_RetryOnlyAfterRevert ==
    \A r \in Runs :
        /\ run[r].retriedAfter \subseteq {"reverted"}
        /\ run[r].retries <= maxRetries
        /\ run[r].spendSubs <= maxRetries + 1
        /\ run[r].retries > 0 => run[r].retriedAfter = {"reverted"}
        /\ run[r].lastSpend \in {"other", "selector"} =>
               /\ run[r].pc = "done" /\ run[r].status = 500
               /\ run[r].spendSubs = run[r].retries + 1
               /\ SpendTxsOf(r) = {}
        /\ (run[r].spendSubs = maxRetries + 1 /\ run[r].lastSpend = "reverted") =>
               /\ run[r].pc = "done" /\ run[r].status = 500
               /\ SpendTxsOf(r) = {}
        /\ (run[r].lastSpend = "reverted" /\ run[r].pc # "done") =>
               run[r].pc = "spend" /\ run[r].retries = run[r].spendSubs

C12_Witness ==
    \E r \in Runs :
        /\ run[r].pc = "done" /\ run[r].status = 500
        /\ run[r].spendSubs = maxRetries + 1 /\ run[r].lastSpend = "reverted"
        /\ run[r].retriedAfter = {"reverted"}

C14_NotYetDueExactly ==
    \A r \in Runs :
        run[r].intervalMs > 0 =>
            LET tooEarly ==
                    /\ run[r].lastExecution # <<>>
                    /\ run[r].now - run[r].lastExecution[1]
                           < perms[run[r].planId].period * MsPerSec
            IN  /\ run[r].status = 429 <=> tooEarly
                /\ run[r].status = 429 =>
                       /\ run[r].pc = "done"
                       /\ run[r].ai = "none" /\ run[r].entryApproved = <<>>
                       /\ ~run[r].balanceLow
                       /\ run[r].approveSubs = 0 /\ run[r].spendSubs = 0
                       /\ SpendTxsOf(r) = {} /\ ApprovalTxsOf(r) = {}

\* the step that answers 429 writes nothing to the store or the ledger
C14_NotYetDueWritesNothing ==
    \A r \in Runs :
        (run'[r].status = 429 /\ run'[r] # run[r]) =>
            /\ plans' = plans /\ perms' = perms /\ executions' = executions
            /\ txs' = txs /\ approved' = approved /\ periodSpend' = periodSpend

\* C14: executePlan answers 429 exactly when the plan has a last-execution
\* timestamp and the time elapsed since it is less than the authorization's
\* period; in that case it makes no advisory call, no ledger call and no write
\* to the store.
C14_NotYetDue == [] C14_NotYetDueExactly /\ [][C14_NotYetDueWritesNothing]_vars

C14_Witness ==
    \E r \in Runs :
        /\ run[r].status = 429 /\ run[r].rebalancing
        /\ run[r].now - run[r].lastExecution[1] = MsPerSec

\* an id is well formed when it is a non-empty string of decimal digits
C15_Malformed(request) ==
    Len(request) = 0 \/ \E i \in 1..Len(request) : ~IsDigit(request[i])

\* C15: executePlan answers 400 for a malformed plan id, 404 when the plan
\* does not exist and also when the plan has no unrevoked authorization, and
\* 500 with an error detail for an execution failure.
C15_StatusCodes ==
    \A r \in Runs :
        run[r].pc = "done" =>
            /\ C15_Malformed(run[r].request) => run[r].status = 400
            /\ ( ~C15_Malformed(run[r].request)
                 /\ parseInt(run[r].request) \notin PlanIds ) => run[r].status = 404
            /\ ( run[r].planId \in PlanIds /\ plans[run[r].planId].active
                 /\ perms[run[r].planId].revoked ) => run[r].status = 404
            /\ ( run[r].approveSubs > 0 \/ run[r].spendSubs > 0 ) =>
                   \/ run[r].status = 200
                   \/ run[r].status = 500 /\ run[r].error # ""

\* a run on an inactive plan, or on a plan without an unrevoked permission,
\* ends with an error once the row has been read, having made no advisory
\* call, no ledger read and no submission
C16_RefusedBeforeAnyCall ==
    \A r \in Runs :
        ( /\ run[r].planId \in PlanIds
          /\ ~plans[run[r].planId].active \/ perms[run[r].planId].revoked )
        => /\ run[r].pc \in {"permission", "done"}
           /\ run[r].pc = "permission" => plans[run[r].planId].active
           /\ run[r].pc = "done" => run[r].status = 400 /\ run[r].error # ""
           /\ run[r].ai = "none" /\ run[r].entryApproved = <<>>
           /\ ~run[r].balanceLow
           /\ run[r].approveSubs = 0 /\ run[r].spendSubs = 0
           /\ SpendTxsOf(r) = {} /\ ApprovalTxsOf(r) = {}

\* no step of such a run changes the store or the ledger
C16_RefusedWritesNothing ==
    \A r \in Runs :
        ( /\ run'[r] # run[r]
          /\ run'[r].planId \in PlanIds
          /\ ~plans[run'[r].planId].active \/ perms[run'[r].planId].revoked )
        => /\ plans' = plans /\ perms' = perms /\ executions' = executions
           /\ txs' = txs /\ approved' = approved /\ periodSpend' = periodSpend

\* C16: if the plan is inactive or has no unrevoked authorization when
\* executePlan is invoked, the run returns an error without making any
\* advisory call, ledger read or transaction submission, and without changing
\* any stored state.
C16_InactiveOrUnauthorized ==
    [] C16_RefusedBeforeAnyCall /\ [][C16_RefusedWritesNothing]_vars

C16_Witness ==
    \E r \in Runs :
        /\ run[r].pc = "done" /\ run[r].planId = 3 /\ run[r].rebalancing
        /\ perms[3].revoked /\ run[r].status = 400

\* the answers the run has had from isApproved: on entry, after its own
\* approval was confirmed, after the "already known" wait
C17_Answers(r) == {run[r].entryApproved, run[r].reconfirm, run[r].recheck}

\* C17: a run submits a spend only after an isApproved query of that same run
\* has returned true; after a confirmed approval and after the "already
\* known" path it does not go on to the spend while the answer is false.
C17_SpendOnlyAfterApprovedSeen ==
    \A r \in Runs :
        /\ run[r].spendSubs > 0 => <<TRUE>> \in C17_Answers(r)
        /\ (run[r].pc = "spend" /\ run[r].spendSubs = 0) => <<TRUE>> \in C17_Answers(r)

\* approve transactions that were mined with success
C18_EffectiveApprovals(p) ==
    {i \in 1..Len(txs) : /\ txs[i].kind = "approve" /\ txs[i].plan = p
                          /\ txs[i].status = "success"}

\* C18: an approval submission that fails with "already known" does not fail
\* the run at that point; the run re-queries isApproved, and while the answer
\* is still false it does not go on to the spend: it retries a bounded number
\* of times and then fails. With overlapping runs the authorization ends up
\* approved whichever submission is mined.
C18_AlreadyKnownReconciled ==
    /\ \A r \in Runs :
         /\ run[r].pc = "recheck" => run[r].status = 0 /\ run[r].approveSubs = 1
         /\ run[r].recheck = <<FALSE>> =>
                /\ run[r].spendSubs = 0
                /\ run[r].pc = "done" => run[r].status = 500
    /\ \A p \in PlanIds : C18_EffectiveApprovals(p) # {} => approved[p]

C19_ApprovalErrors == {"Approval transaction failed", "approval submission failed"}

\* a run whose approval was submitted goes past the receipt only when the
\* receipt is a success; a run whose approval failed has submitted no spend
C19_NoSpendBeforeReceipt ==
    \A r \in Runs :
        /\ run[r].approvalTx # 0 =>
               /\ run[r].approveSubs = 1
               /\ ( run[r].spendSubs > 0
                    \/ run[r].pc \in {"reconfirm", "spend", "spendReceipt",
                                       "updatePlan", "insert"} )
                  => txs[run[r].approvalTx].status = "success"
               /\ txs[run[r].approvalTx].status = "reverted" =>
                      /\ run[r].pc \in {"approvalReceipt", "done"}
                      /\ run[r].pc = "done" =>
                             /\ run[r].status = 500
                             /\ run[r].error = "Approval transaction failed"
        /\ run[r].error \in C19_ApprovalErrors =>
               /\ run[r].pc = "done" /\ run[r].status = 500
               /\ run[r].spendSubs = 0 /\ SpendTxsOf(r) = {}
               /\ run[r].breakdown = <<>>

\* the step at which the approval fails leaves the store unchanged
C19_ApprovalFailureWritesNothing ==
    \A r \in Runs :
        (run'[r].error \in C19_ApprovalErrors /\ run'[r] # run[r]) =>
            plans' = plans /\ executions' = executions /\ txs' = txs

\* C19: when a run submits approveWithSignature, no spend is submitted before
\* the approval's receipt has been obtained with status success; if the
\* receipt is not a success, or the submission fails with an error other than
\* "already known", the run fails without a spend and without changing the
\* plan.
C19_ApprovalGatesSpend ==
    [] C19_NoSpendBeforeReceipt /\ [][C19_ApprovalFailureWritesNothing]_vars

C19_Witness ==
    \E r, q \in Runs :
        /\ run[r].approvalTx # 0 /\ txs[run[r].approvalTx].status = "success"
        /\ run[r].status = 200
        /\ run[q].approvalTx # 0 /\ txs[run[q].approvalTx].status = "reverted"
        /\ run[q].status = 500

\* plan p was due when the pass took now: it is active and either was never
\* executed or at least the period of its permission has elapsed
C20_WasDue(p) ==
    /\ plans[p].active
    /\ \/ sched.lastSeen[p] = <<>>
       \/ sched.now - sched.lastSeen[p][1] >= perms[p].period * MsPerSec

\* C20: a scheduler pass enumerates exactly the active plans that were never
\* executed or whose last execution is at least the period of the plan's
\* authorization ago; inactive plans and plans whose period has not elapsed
\* are never invoked.
C20_EnumeratesExactlyDue ==
    sched.pc # "idle" =>
        /\ sched.enumerated = {p \in PlanIds : C20_WasDue(p)}
        /\ \A r \in Runs : run[r].planId \in PlanIds => C20_WasDue(run[r].planId)

\* the requests the pass has made for plan p
C21_RunsOf(p) == {r \in Runs : run[r].pc # "idle" /\ run[r].planId = p}

C21_ResultsOf(p) == {e \in sched.results : e.planId = p}

C22_CancelIsTerminal ==
    \A p \in PlanIds :
        plans[p].cancelled # <<>> =>
            /\ ~plans[p].active
            /\ \A k \in 1..Len(executions) :
                 executions[k].plan_id = p =>
                     executions[k].executed_at <= plans[p].cancelled[1]

\* the runs that have attempted an execution and have ended, with success or
\* with a failure of the balance check, the approval or the spend
C24_Attempts ==
    {r \in Runs : /\ run[r].pc = "done"
                   /\ \/ run[r].status = 200
                      \/ run[r].balanceLow
                      \/ run[r].status = 500}

\* no step changes or removes a record: the records before the step are a
\* prefix of the records after it, and at most one record is added
C24_AppendOnly ==
    /\ Len(executions') \in {Len(executions), Len(executions) + 1}
    /\ SubSeq(executions', 1, Len(executions)) = executions

\* C24: execution records are append-only, one record per execution attempt:
\* there are as many records as attempts that have ended, and no record is
\* ever modified or deleted.
C24_OneRecordPerAttempt == Len(executions) = Cardinality(C24_Attempts)

\* C25: strategy responses are payment-gated: the planner answers with a
\* strategy only for a request whose agent payment has been confirmed.
C25_StrategyOnlyAfterPayment ==
    (planner.pc = "done" /\ planner.success) => planner.paymentInfo = "paid"

\* the ids in a user's plan-id list
C26_ListedIds(c, u) ==
    {c.userPlanIds[u][k] : k \in 1..Len(c.userPlanIds[u])}

C26_CreateStep ==
    LET call == contract'.last
        u == call.sender
        p == call.planId
        allowed == /\ call.args[1] > 0
                   /\ Sum3(call.args[2]) = 100
                   /\ p \notin C26_ListedIds(contract, u)
    IN  (contract' # contract /\ call.op = "createSIPPlan") =>
            /\ (call.revert = "") <=> allowed
            /\ call.revert # "" =>
                   /\ contract'.userPlans = contract.userPlans
                   /\ contract'.userPlanIds = contract.userPlanIds
            /\ call.revert = "" =>
                   /\ contract'.userPlans[u][p].active
                   /\ contract'.userPlans[u][p].totalDeposited = 0
                   /\ contract'.userPlans[u][p].monthlyAmount = call.args[1]
                   /\ contract'.userPlans[u][p].strategy = call.args[2]
                   /\ contract'.userPlanIds[u] = Append(contract.userPlanIds[u], p)
                   /\ \A q \in ContractPlanIds \ {p} :
                          contract'.userPlans[u][q] = contract.userPlans[u][q]

C27_StrategiesSumTo100 ==
    \A u \in Users, p \in ContractPlanIds :
        contract.userPlans[u][p].createdAt > 0 =>
            Sum3(contract.userPlans[u][p].strategy) = 100

C27_RebalanceStep ==
    LET call == contract'.last
        before == contract.userPlans[call.user][call.planId]
        allowed == /\ call.sender = Owner
                   /\ before.active
                   /\ before.rebalancingEnabled
                   /\ Sum3(call.args[1]) = 100
    IN  /\ (contract' # contract /\ call.op = "rebalance") =>
            /\ (call.revert = "") <=> allowed
            /\ contract'.userPlans[call.user][call.planId].strategy =
                   IF allowed THEN call.args[1] ELSE before.strategy
        \* the strategy of an existing plan changes in no other step
        /\ \A u \in Users, p \in ContractPlanIds :
               (/\ contract.userPlans[u][p].createdAt > 0
                /\ contract'.userPlans[u][p].strategy #
                       contract.userPlans[u][p].strategy) =>
                   /\ call.op = "rebalance" /\ call.revert = ""
                   /\ call.user = u /\ call.planId = p

\* C27: the strategy percentages of every existing plan sum to exactly 100 in
\* every reachable state; rebalance commits exactly when the owner calls it on
\* an active plan with rebalancing enabled and percentages summing to 100, and
\* otherwise reverts and leaves the strategy unchanged.
C27_Rebalance == []C27_StrategiesSumTo100 /\ [][C27_RebalanceStep]_vars

\* the owner has replaced the strategy of a plan
C27_Witness ==
    /\ contract.last.op = "rebalance"
    /\ contract.last.revert = ""
    /\ contract.userPlans[contract.last.user][contract.last.planId].strategy =
           contract.last.args[1]
    /\ contract.last.args[1] = <<100, 0, 0>>
    /\ contract.userPlans[contract.last.user][contract.last.planId].totalDeposited > 0

C28_DepositStep ==
    LET call == contract'.last
    IN  (contract' # contract /\ call.op = "depositDirect" /\ call.revert = "") =>
            contract'.balance = contract.balance

\* C28: a depositDirect call forwards the whole deposit to the protocols: for
\* every amount and strategy, the balance of LumoContract after the call
\* equals its balance before the call.
C28_DepositForwarded == [][C28_DepositStep]_vars

C29_TotalIsSumOfDeposits ==
    \A u \in Users, p \in ContractPlanIds :
        contract.userPlans[u][p].totalDeposited = contract.deposited[u][p]

C29_DepositStep ==
    LET call == contract'.last
        before == contract.userPlans[call.sender][call.planId]
        after == contract'.userPlans[call.sender][call.planId]
    IN  (contract' # contract /\ call.op = "depositDirect") =>
            /\ (~before.active \/ call.value = 0) => call.revert # ""
            /\ call.revert = "" =>
                   after.totalDeposited = before.totalDeposited + call.value
            /\ call.revert # "" =>
                   /\ after.totalDeposited = before.totalDeposited
                   /\ after.lastDepositTime = before.lastDepositTime

\* C29: a plan's totalDeposited equals the sum of the amounts of the
\* successful deposits made to it: a successful depositDirect of v adds
\* exactly v, and a depositDirect on an inactive plan or with value zero
\* reverts and leaves totalDeposited and lastDepositTime unchanged.
C29_TotalDeposited == []C29_TotalIsSumOfDeposits /\ [][C29_DepositStep]_vars

\* two deposits have been credited to a plan, the last one by depositDirect
\* in a later block than the plan's creation
C29_Witness ==
    /\ contract.last.op = "depositDirect"
    /\ contract.last.revert = ""
    /\ contract.last.value = 5
    /\ contract.userPlans[contract.last.sender][contract.last.planId].totalDeposited = 10
    /\ contract.userPlans[contract.last.sender][contract.last.planId].lastDepositTime >
           contract.userPlans[contract.last.sender][contract.last.planId].createdAt

C30_StatusStep ==
    LET call == contract'.last
        before == contract.userPlans[call.sender][call.planId]
        after == contract'.userPlans[call.sender][call.planId]
    IN  /\ (contract' # contract /\ call.op \in {"pausePlan", "cancelPlan"}) =>
            /\ (call.revert = "") <=> before.active
            /\ ~before.active => call.revert = "No active plan"
            /\ after.active = FALSE
        /\ (contract' # contract /\ call.op = "resumePlan") =>
            /\ (call.revert = "") <=> (before.createdAt > 0 /\ ~before.active)
            /\ before.createdAt = 0 => call.revert = "Plan does not exist"
            /\ before.active => call.revert = "Plan already active"
            /\ after.active = (before.createdAt > 0)

\* C30: pausePlan and cancelPlan succeed exactly when the caller's plan is
\* active and otherwise revert with "No active plan"; resumePlan succeeds
\* exactly when the caller's plan exists and is inactive, also after
\* cancelPlan, and reverts with "Plan does not exist" for a missing plan and
\* with "Plan already active" for an active one.
C30_PauseCancelResume == [][C30_StatusStep]_vars

\* a cancelled plan has been resumed
C30_Witness ==
    /\ contract.last.op = "resumePlan"
    /\ contract.last.revert = ""
    /\ contract.deactivatedBy[contract.last.sender][contract.last.planId] = "cancelPlan"
    /\ contract.userPlans[contract.last.sender][contract.last.planId].active

C31_StatusStep ==
    LET call == contract'.last
    IN  (/\ contract' # contract
         /\ call.op \in {"cancelPlan", "pausePlan", "resumePlan"}) =>
            /\ \A u \in Users, p \in ContractPlanIds :
                   IF u = call.sender /\ p = call.planId
                   THEN [contract'.userPlans[u][p] EXCEPT
                             !.active = contract.userPlans[u][p].active] =
                        contract.userPlans[u][p]
                   ELSE contract'.userPlans[u][p] = contract.userPlans[u][p]
            /\ contract'.userPlanIds = contract.userPlanIds
            /\ contract'.balance = contract.balance

\* C31: cancelPlan, pausePlan and resumePlan change only the active flag of
\* the caller's plan with the given id: its amount, strategy, totalDeposited
\* and timestamps, and every other plan of any user, stay as they were.
C31_StatusChangesOnlyActive == [][C31_StatusStep]_vars

\* a plan with deposits has been cancelled next to an active plan of the same
\* user and an active plan of another user under the same id
C31_Witness ==
    /\ contract.last.op = "cancelPlan"
    /\ contract.last.revert = ""
    /\ contract.last.sender = "user1" /\ contract.last.planId = 1
    /\ ~contract.userPlans["user1"][1].active
    /\ contract.userPlans["user1"][1].totalDeposited = 5
    /\ contract.userPlans["user1"][2].active
    /\ contract.userPlans["user2"][1].active

\* the spend transaction a success record refers to is confirmed with status
\* success, is a spend of the record's plan, and has the record's amount
C32_RecordHasConfirmedSpend ==
    \A k \in 1..Len(executions) :
        executions[k].status = "success" =>
            /\ executions[k].tx_hash \in DOMAIN txs
            /\ txs[executions[k].tx_hash].kind = "spend"
            /\ txs[executions[k].tx_hash].plan = executions[k].plan_id
            /\ txs[executions[k].tx_hash].status = "success"
            /\ parseEther(executions[k].amount) = txs[executions[k].tx_hash].value

\* a step that writes total_deposited or last_execution of a plan is the
\* plan update of a run whose spend is confirmed with status success
C32_UpdateStep ==
    \A p \in PlanIds :
        (\/ plans'[p].total_deposited # plans[p].total_deposited
         \/ plans'[p].last_execution # plans[p].last_execution) =>
            \E r \in Runs :
                /\ run[r].pc = "updatePlan" /\ run'[r].pc = "insert"
                /\ run[r].planId = p
                /\ run[r].spendTx \in DOMAIN txs
                /\ txs[run[r].spendTx].kind = "spend"
                /\ txs[run[r].spendTx].plan = p
                /\ txs[run[r].spendTx].status = "success"

C33_StoppedAfterSpend ==
    {r \in Runs : /\ run[r].later # {} \/ run[r].pc = "crashed"
                  /\ run[r].spendTx \in DOMAIN txs
                  /\ txs[run[r].spendTx].status = "success"}

\* C33: runs are resumable from stored state: when a run has stopped after
\* its spend was confirmed, a run of the same plan that starts later, within
\* the same period, submits no second spend.
C33_NoSecondSpendAfterStop ==
    \A r \in C33_StoppedAfterSpend, q \in Runs :
        (/\ q \in run[r].later
         /\ run[q].planId = run[r].planId
         /\ run[q].now - run[r].now < run[r].intervalMs) =>
            run[q].spendSubs = 0

C34_PlanStep ==
    /\ Cardinality({p \in PlanIds : plans'[p] # plans[p]}) <= 1
    /\ \A r \in Runs :
           run'[r] # run[r] =>
               \A p \in PlanIds \ {run[r].planId} : plans'[p] = plans[p]

\* C34: an execution for one plan never modifies the record of another plan,
\* also not another plan of the same owner: every step changes the record of
\* at most one plan, and a step of a run changes no plan but the run's own.
C34_OtherPlansUntouched == [][C34_PlanStep]_vars

\* C35: the period of the plan's authorization governs the cadence in every
\* code path: the next execution reported for a plan that has been executed
\* is its last execution plus the period of its permission, and a request
\* answered "not yet due" was made less than that period after it.
C35_PeriodGovernsCadence ==
    (/\ legacy.status \in {200, 429}
     /\ legacy.lastExecution # <<>>) =>
        legacy.nextExecution =
            legacy.lastExecution[1] + ExecutionIntervalMs(perms[legacy.plan].period)

\* the due-ness re-check of executePlan accepts plan p on the state the pass
\* read: the permission row is found and the plan is not answered 429
C36_OrchestratorAccepts(p) ==
    /\ PermissionFound(perms[p])
    /\ ~NotYetDue(sched.lastSeen[p], sched.now, ExecutionIntervalMs(perms[p].period))

\* C36: the scheduler and executePlan agree on due-ness at the same instant and
\* on the same stored state: every plan the scheduler enumerates is accepted by
\* executePlan's re-check, and every active plan with an unrevoked permission
\* (permission_type 'sip' or NULL) that executePlan would accept is enumerated.
C36_SchedulerAgreesWithOrchestrator ==
    sched.pc # "idle" =>
        \A p \in PlanIds :
            /\ p \in sched.enumerated => C36_OrchestratorAccepts(p)
            /\ (plans[p].active /\ C36_OrchestratorAccepts(p)) => p \in sched.enumerated

\* the sum of the amounts (wei) of the success ExecutionRecords k..Len of plan p
RECURSIVE C37_RecordedFrom(_, _)
C37_RecordedFrom(p, k) ==
    IF k > Len(executions)
    THEN 0
    ELSE (IF executions[k].plan_id = p /\ executions[k].status = "success"
          THEN parseEther(executions[k].amount)
          ELSE 0) + C37_RecordedFrom(p, k + 1)

C37_NoRunInFlight == \A r \in Runs : run[r].pc \in {"idle", "done"}

\* C37: after any set of executePlan runs for one plan, overlapping runs
\* included, the plan's total_deposited is its initial total (0) plus the sum
\* of the amounts of the plan's success ExecutionRecords: no update is lost.
C37_TotalIsSumOfRecords ==
    C37_NoRunInFlight =>
        \A p \in PlanIds :
            parseEther(plans[p].total_deposited) = C37_RecordedFrom(p, 1)

\* a step leaves the last_execution of every plan where it is or moves it forward
C38_PlanStep ==
    \A p \in PlanIds :
        plans[p].last_execution # <<>> =>
            /\ plans'[p].last_execution # <<>>
            /\ plans'[p].last_execution[1] >= plans[p].last_execution[1]

\* C38: a plan's last_execution never decreases: every write stores a time
\* greater than or equal to the value stored before, for every interleaving of
\* the runs of that plan.
C38_LastExecutionNeverDecreases == [][C38_PlanStep]_vars

\* C39: a run that ends in failure leaves the plan row entirely unchanged:
\* no write of the run has changed the strategy triple, total_deposited or
\* last_execution, also when rebalancing is enabled and the advisory call
\* succeeded before the failure.
C39_FailedRunLeavesPlan ==
    \A r \in Runs :
        (run[r].pc = "done" /\ run[r].status # 200) => ~run[r].planChanged

\* C40: every triple returned by the normalization of generateAIStrategy has
\* all three percentages in 0..100: for non-negative inputs with a positive
\* sum, rounding the first two rescaled values and setting the third to 100
\* minus their sum never yields a negative percentage.
C40_NormalizedWithinRange ==
    norm.out # <<>> => \A k \in 1..3 : norm.out[k] \in 0..100

====
